---- MODULE Spec2Model ----
(***************************************************************************)
(* A model of the download orchestration of ksp_video_download:            *)
(*   VideoDownloader.download   (src/src/core/downloader.py)               *)
(*   DownloadWorker.run         (src/src/ui/main_window.py)                *)
(*   VideoDownloader._progress_hook, _format_size, _format_time            *)
(*   MainWindow.update_progress (src/src/ui/main_window.py)                *)
(* Strings on which path operations act are modelled as sequences of       *)
(* one-character strings, so that basename, splitext, endswith and join    *)
(* are computed as posixpath computes them.                                *)
(***************************************************************************)
EXTENDS Integers, Sequences, FiniteSets, TLC

----------------------------------------------------------------------------
(* Bounds of the model *)

\* longest file name the engine reports, in characters
MaxNameLen == 5
\* longest extension carried by an info record, in characters
MaxExtLen == 2
\* most progress events the engine sends during one run
MaxProgress == 2

----------------------------------------------------------------------------
(* Values *)

\* Python's None
None == "<None>"

\* the empty dict
EmptyDict == [k \in {} |-> TRUE]

\* dict.update(): the entries of d2 over those of d1
Update(d1, d2) ==
    [k \in (DOMAIN d1) \cup (DOMAIN d2) |-> IF k \in DOMAIN d2 THEN d2[k] ELSE d1[k]]

\* Python truth value of an optional string
Truthy(s) == s # None /\ s # ""

\* the localization lookup: a text is modelled by its key, its wording being
\* in the table; a key with no entry in the table is returned as is (the
\* case of the error keys, the unit keys and the time keys in the table
\* built by _create_default_translations)
get_text(key) == key

Sep == "/"
ExtSep == "."
Letters == {"a", "b"}
Chars == Letters \cup {ExtSep, Sep}

\* all sequences over S of length lo..hi
SeqsOf(S, lo, hi) == UNION {[1..n -> S] : n \in lo..hi}

----------------------------------------------------------------------------
(* posixpath / str operations *)

\* str.rfind(c) + 1: the 1-based position of the last c in p, 0 when there is none
RFind(p, c) ==
    LET hits == {i \in 1..Len(p) : p[i] = c}
    IN  IF hits = {} THEN 0 ELSE CHOOSE i \in hits : \A j \in hits : j <= i

\* str.endswith
EndsWith(s, suffix) ==
    /\ Len(suffix) <= Len(s)
    /\ SubSeq(s, Len(s) - Len(suffix) + 1, Len(s)) = suffix

\* os.path.basename: everything after the last separator
Basename(p) == SubSeq(p, RFind(p, Sep) + 1, Len(p))

\* os.path.splitext(p)[0]: the extension starts at the last dot of the last
\* component, leading dots of that component not counting
SplitextRoot(p) ==
    LET sepIndex == RFind(p, Sep)
        dotIndex == RFind(p, ExtSep)
    IN  IF /\ dotIndex > sepIndex
           /\ \E i \in (sepIndex + 1)..(dotIndex - 1) : p[i] # ExtSep
        THEN SubSeq(p, 1, dotIndex - 1)
        ELSE p

\* os.path.join of two components
Join(a, b) ==
    IF Len(b) > 0 /\ b[1] = Sep THEN b
    ELSE IF Len(a) = 0 \/ a[Len(a)] = Sep THEN a \o b
    ELSE a \o <<Sep>> \o b

----------------------------------------------------------------------------
(* VideoDownloader._get_format_options *)

\* A format query is a sequence of alternatives (separated by "/" in the
\* query text), an alternative a sequence of stream selectors (joined by
\* "+"), a selector a stream name with its bracketed filters in order.
Sel(name, filters) == [stream |-> name, filters |-> filters]
HeightMax(h) == <<"height", "<=", h>>
Vcodec(tag) == <<"vcodec", "*=", tag>>

\* the post-processing directive of the audio tiers
ExtractAudio(c) ==
    <<[key |-> "FFmpegExtractAudio", preferredcodec |-> c, preferredquality |-> "192"]>>

\* HeightQuery with the codec filter left out of the first alternative
HeightQueryNoCodec(h, video_codec) ==
    << <<Sel("bestvideo", <<HeightMax(h)>>), Sel("bestaudio", <<>>)>>,
       <<Sel("best", <<HeightMax(h)>>)>>,
       <<Sel("bestvideo", <<HeightMax(h)>>), Sel("bestaudio", <<>>)>>,
       <<Sel("best", <<>>)>> >>

\* 'bestvideo[height<=H][vcodec*=V]+bestaudio/best[height<=H]/bestvideo[height<=H]+bestaudio/best'
HeightQuery(h, video_codec) ==
    << <<Sel("bestvideo", <<HeightMax(h), Vcodec(video_codec)>>), Sel("bestaudio", <<>>)>>,
       <<Sel("best", <<HeightMax(h)>>)>>,
       <<Sel("bestvideo", <<HeightMax(h)>>), Sel("bestaudio", <<>>)>>,
       <<Sel("best", <<>>)>> >>

\* 'bestvideo[vcodec*=V]+bestaudio/bestvideo+bestaudio/best'
BestQuery(video_codec) ==
    << <<Sel("bestvideo", <<Vcodec(video_codec)>>), Sel("bestaudio", <<>>)>>,
       <<Sel("bestvideo", <<>>), Sel("bestaudio", <<>>)>>,
       <<Sel("best", <<>>)>> >>

\* 'bestaudio/best'
AudioQuery == << <<Sel("bestaudio", <<>>)>>, <<Sel("best", <<>>)>> >>

\* _get_format_options with the last branch taken for 'best' alone
_get_format_options_known_only(format_option, codec) ==
    LET video_codec == IF codec = "h264" THEN "avc" ELSE "av01"
    IN  CASE format_option = "mp3" ->
               [format |-> AudioQuery, postprocessors |-> ExtractAudio("mp3")]
          [] format_option = "m4a" ->
               [format |-> AudioQuery, postprocessors |-> ExtractAudio("m4a")]
          [] format_option = "720" -> [format |-> HeightQuery(720, video_codec)]
          [] format_option = "1080" -> [format |-> HeightQuery(1080, video_codec)]
          [] format_option = "480" -> [format |-> HeightQuery(480, video_codec)]
          [] format_option = "best" -> [format |-> BestQuery(video_codec)]
          [] OTHER -> EmptyDict

_get_format_options(format_option, codec) ==
    LET video_codec == IF codec = "h264" THEN "avc" ELSE "av01"
    IN  CASE format_option = "mp3" ->
               [format |-> AudioQuery, postprocessors |-> ExtractAudio("mp3")]
          [] format_option = "m4a" ->
               [format |-> AudioQuery, postprocessors |-> ExtractAudio("m4a")]
          [] format_option = "720" -> [format |-> HeightQuery(720, video_codec)]
          [] format_option = "1080" -> [format |-> HeightQuery(1080, video_codec)]
          [] format_option = "480" -> [format |-> HeightQuery(480, video_codec)]
          [] OTHER -> [format |-> BestQuery(video_codec)]

----------------------------------------------------------------------------
(* VideoDownloader.download: the engine options *)

UserAgent ==
    "Mozilla/5.0 (Windows NT 10.0; Win64; x64) AppleWebKit/537.36 (KHTML, like Gecko) Chrome/91.0.4472.124 Safari/537.36"

\* '%(title)s.%(ext)s'
NameTemplate == <<"%(title)s", ExtSep, "%(ext)s">>

BaseOptions(output_path) ==
    [outtmpl |-> Join(output_path, NameTemplate),
     noplaylist |-> TRUE,
     quiet |-> TRUE,
     no_warnings |-> TRUE]

\* HeaderOptions with the referrer tested against None alone
HeaderOptionsNotNone(referrer) ==
    IF referrer # None
    THEN [http_headers |-> ("Referer" :> referrer) @@ ("User-Agent" :> UserAgent)]
    ELSE EmptyDict

\* the entries added for the referrer
HeaderOptions(referrer) ==
    IF Truthy(referrer)
    THEN [http_headers |-> ("Referer" :> referrer) @@ ("User-Agent" :> UserAgent)]
    ELSE EmptyDict

\* the entries added for the progress callback
HookOptions(progress_callback) ==
    IF progress_callback THEN [progress_hooks |-> <<"_progress_hook">>] ELSE EmptyDict

\* ydl_opts as it stands when the engine is first constructed
BuildOptions(output_path, referrer, format_opts, progress_callback) ==
    Update(Update(Update(BaseOptions(output_path), HeaderOptions(referrer)),
                  format_opts),
           HookOptions(progress_callback))

\* FallbackOptions built afresh from the format options of 'best', the
\* post-processing directives of the request lost
FallbackOptionsRebuilt(opts) ==
    [k \in (DOMAIN opts) \ {"postprocessors"} |->
        IF k = "format" THEN << <<Sel("best", <<>>)>> >> ELSE opts[k]]

\* ydl_opts_fallback: a copy of the options with the query 'best'
FallbackOptions(opts) == Update(opts, [format |-> << <<Sel("best", <<>>)>> >>])

\* Makedirs without exist_ok: an existing directory is an error
MakedirsNotExistOk(exists) == [exists |-> TRUE, raised |-> exists]

\* os.makedirs(output_path, exist_ok=True), given whether the directory exists:
\* whether it exists afterwards, and whether the call raised
Makedirs(exists) == [exists |-> TRUE, raised |-> FALSE]

----------------------------------------------------------------------------
(* VideoDownloader.download: the path of the downloaded file *)

\* the extension check and rewrite
CorrectedFilename(filename, info) ==
    IF "ext" \in DOMAIN info /\ ~EndsWith(filename, info.ext)
    THEN SplitextRoot(filename) \o <<ExtSep>> \o info.ext
    ELSE filename

\* ResultFile with the corrected file name joined as it is
ResultFileNoBasename(output_path, filename, info) ==
    Join(output_path, CorrectedFilename(filename, info))

ResultFile(output_path, filename, info) ==
    Join(output_path, Basename(CorrectedFilename(filename, info)))

\* the same steps on the fallback path
ResultFileFallback(output_path, filename, info) ==
    Join(output_path, Basename(CorrectedFilename(filename, info)))

----------------------------------------------------------------------------
(* The fetch engine as download sees it *)

\* str(e) of an engine failure: one message carries the text
\* "Requested format is not available", the other does not
FormatUnavailableMsg == "ERROR: Requested format is not available. Use --list-formats"
OtherMsg == "ERROR: Unable to download webpage"

\* the substring test '"Requested format is not available" in str(e)'
IsFormatUnavailable(msg) == msg = FormatUnavailableMsg

\* the exception classes the handlers of download tell apart; "Exception" is
\* any exception that is neither of the two yt_dlp classes
ExcClasses == {"ExtractorError", "DownloadError", "Exception"}
EngineErrors == [cls : ExcClasses, msg : {FormatUnavailableMsg, OtherMsg}]

\* raise Exception(_(key))
Raised(key) == [kind |-> "raise", exc |-> [cls |-> "Exception", msg |-> get_text(key)]]
Returned(path) == [kind |-> "return", path |-> path]

\* info records: a title, and an extension or none
InfosUpTo(n) ==
    {[title |-> "t"]} \cup {[title |-> "t", ext |-> e] : e \in SeqsOf(Letters, 1, n)}

\* every file name and info record within the bounds
AllNames == SeqsOf(Chars, 1, MaxNameLen)
AllInfos == InfosUpTo(MaxExtLen)

\* the file names and info records of the engine under the worker
MockNames == {<<"d", Sep, "t", ExtSep, "a">>, <<"t", ExtSep, "b">>, <<"t", ExtSep, "b", "a">>}
MockInfos == {[title |-> "t"], [title |-> "t", ext |-> <<"a">>]}

\* what the engine answers to a query
Answers == {"info", "none", "raise"}

----------------------------------------------------------------------------
(* State *)

VARIABLES
    output_path,        \* DownloadWorker.output_path
    format_option,      \* DownloadWorker.format_option
    codec,              \* DownloadWorker.codec
    referrer,           \* DownloadWorker.referrer
    progress_callback,  \* TRUE iff download is given a progress callback
    dir_before,         \* TRUE iff the destination directory existed at the start
    dir_exists,         \* TRUE iff the destination directory exists
    pc,                 \* where the run stands
    format_opts,        \* download's local format_opts
    ydl_opts,           \* download's local ydl_opts
    ydl_opts_fallback,  \* download's local ydl_opts_fallback
    calls,              \* number of calls of extract_info
    primary,            \* what the first call of extract_info did
    fallback_answer,    \* what the engine answers to the query 'best'
    fallback,           \* what the second call of extract_info did
    outcome,            \* what download returned or raised
    channel,            \* the signals the worker emitted, in order
    delivered           \* how many of them the consumer's slots have received

VARIABLES
    d,                  \* the engine event handed to the hook
    handler_fails,      \* TRUE iff the log handlers cannot write during the event
    hook_pc,            \* where the call of the hook stands
    hook_exc,           \* the exception that left the hook
    sink,               \* the (percent, message) pairs given to progress_callback
    consumed,           \* how many of them update_progress has received
    bar_before,         \* progress_bar.value() before the event
    progress_bar,       \* progress_bar.value()
    progress_label,     \* progress_label.text()
    call,               \* a call of _format_time or _format_size
    ret                 \* what the call returned

VARIABLES
    data,                 \* the document json.load returned
    json_pc,              \* where process_json_file stands
    found,                \* what find_m3u8_url returned
    shakahls,             \* process_json_file's local shakahls
    json_referrer,        \* process_json_file's local referrer
    json_exc,             \* the exception process_json_file caught
    json_info_label,      \* json_info_label.text()
    referrer_input,       \* referrer_input.text()
    kinescope_url_input,  \* kinescope_url_input.text()
    filename_input        \* filename_input.text()

VARIABLES
    ui_enabled,           \* what set_ui_enabled was last called with
    workers,              \* workers started whose terminal signal is not received
    url,                  \* DownloadWorker.url
    tab,                  \* tab_widget.currentWidget()
    origin,               \* the handler that started the worker
    kinescope_codec,      \* kinescope_codec_combo.currentText() at the start
    last_click            \* what the last click on a download button did

jsonvars == <<data, json_pc, found, shakahls, json_referrer, json_exc, json_info_label>>
fields == <<referrer_input, kinescope_url_input, filename_input>>
uirest == <<url, tab, origin, kinescope_codec, last_click>>
uivars == <<ui_enabled, workers, uirest>>

hookvars == <<d, handler_fails, hook_pc, hook_exc, sink, consumed, bar_before,
              progress_bar, progress_label>>
fmtvars == <<call, ret>>
auxvars == <<hookvars, fmtvars, jsonvars, fields, uirest>>

vars == <<output_path, format_option, codec, referrer, progress_callback,
          dir_before, dir_exists, pc, format_opts, ydl_opts, ydl_opts_fallback,
          calls, primary, fallback_answer, fallback, outcome, channel, delivered,
          auxvars, ui_enabled, workers>>

request == <<output_path, format_option, codec, referrer, progress_callback, dir_before>>
optvars == <<format_opts, ydl_opts, ydl_opts_fallback>>
sigvars == <<channel, delivered>>

\* the values of pc at which download has returned or raised
Ended == {"returned", "raised", "done", "escaped"}

Pending == [kind |-> "pending"]
Unset == [kind |-> "unset"]

FormatOptions == {"best", "1080", "720", "480", "mp3", "m4a", "2160"}
Codecs == {"h264", "av1", "h265"}
Referrers == {None, "", "https://r.example"}

\* the state in which a run starts, for given sets of requests
\* no event is being handled
HookIdle ==
    /\ d = Unset
    /\ handler_fails = FALSE
    /\ hook_pc = "idle"
    /\ hook_exc = None
    /\ sink = <<>>
    /\ consumed = 0
    /\ bar_before = 0
    /\ progress_bar = 0
    /\ progress_label = <<"status_ready">>

\* no file has been given
JsonIdle ==
    /\ data = Unset
    /\ json_pc = "idle"
    /\ found = Unset
    /\ shakahls = Unset
    /\ json_referrer = Unset
    /\ json_exc = None
    /\ json_info_label = "idle"
    /\ referrer_input = <<>>
    /\ kinescope_url_input = <<>>
    /\ filename_input = <<>>

\* the window as built: the controls enabled, no worker
UiIdle ==
    /\ ui_enabled = TRUE
    /\ workers = 0
    /\ url = <<>>
    /\ tab = "general"
    /\ origin = "none"
    /\ kinescope_codec = "h264"
    /\ last_click = "none"

\* the window after start_download has started the worker
UiStarted ==
    /\ ui_enabled = FALSE
    /\ workers = 1
    /\ url = <<"u">>
    /\ tab = "general"
    /\ origin = "start_download"
    /\ kinescope_codec = "h264"
    /\ last_click = "started"

\* no formatting function is being called
FmtIdle ==
    /\ call = Unset
    /\ ret = Unset

InitOf(paths, formats, codecs, referrers, callbacks) ==
    /\ output_path \in paths
    /\ format_option \in formats
    /\ codec \in codecs
    /\ referrer \in referrers
    /\ progress_callback \in callbacks
    /\ dir_before \in BOOLEAN
    /\ dir_exists = dir_before
    /\ pc = "run"
    /\ format_opts = Unset
    /\ ydl_opts = Unset
    /\ ydl_opts_fallback = Unset
    /\ calls = 0
    /\ primary = Pending
    /\ fallback_answer = "unset"
    /\ fallback = Pending
    /\ outcome = Pending
    /\ channel = <<>>
    /\ delivered = 0

----------------------------------------------------------------------------
(* VideoDownloader.download *)

\* the directory is made and the options are built
Prepare ==
    /\ pc = "run"
    /\ dir_exists' = Makedirs(dir_exists).exists
    /\ IF Makedirs(dir_exists).raised
       THEN /\ outcome' = [kind |-> "raise",
                           exc |-> [cls |-> "Exception", msg |-> "FileExistsError"]]
            /\ pc' = "raised"
            /\ UNCHANGED <<format_opts, ydl_opts>>
       ELSE /\ format_opts' = _get_format_options(format_option, codec)
            /\ ydl_opts' = BuildOptions(output_path, referrer, format_opts',
                                        progress_callback)
            /\ pc' = "ready"
            /\ UNCHANGED outcome
    /\ UNCHANGED <<auxvars, ui_enabled, workers, request, ydl_opts_fallback, calls, primary, fallback_answer,
                   fallback, sigvars>>

\* ydl.extract_info(url, download=True) with the primary options
InvokePrimary ==
    /\ pc = "ready"
    /\ calls' = calls + 1
    /\ pc' = "primary"
    /\ UNCHANGED <<auxvars, ui_enabled, workers, request, dir_exists, optvars, primary, fallback_answer,
                   fallback, outcome, sigvars>>

\* RetriesOn with the message of the exception not looked at
RetriesOnAnyExtractorError(e) == e.cls = "ExtractorError"

\* which handler of the try statement takes an exception raised in its body,
\* and whether that handler goes on to the fallback
RetriesOn(e) == e.cls = "ExtractorError" /\ IsFormatUnavailable(e.msg)

\* what download raises when the body of the try statement raised e and the
\* fallback is not tried: each of the three handlers raises the same
AfterFailure(e) ==
    CASE e.cls = "ExtractorError" -> Raised("error_download_failed")
      [] e.cls = "DownloadError" -> Raised("error_download_failed")
      [] OTHER -> Raised("error_download_failed")

\* the exception raised inside the try statement when the engine returns no info
NoInfoError == [cls |-> "Exception", msg |-> get_text("error_no_video_info")]

\* AfterFallbackFailure with the failure of the second call passed on
AfterFallbackFailurePassedOn(result) ==
    IF result.kind = "raise"
    THEN [kind |-> "raise", exc |-> result.exc]
    ELSE Raised("error_no_video_info")

\* what download raises after the second call ended in result, an exception
\* (caught and logged) or no info: the raise that closes the first handler
AfterFallbackFailure(result) == Raised("error_download_failed")

PrimaryReturnsInfo(filename, info) ==
    /\ pc = "primary"
    /\ primary' = [kind |-> "info", filename |-> filename, info |-> info]
    /\ outcome' = Returned(ResultFile(output_path, filename, info))
    /\ pc' = "returned"
    /\ UNCHANGED <<auxvars, ui_enabled, workers, request, dir_exists, optvars, calls, fallback_answer, fallback, sigvars>>

PrimaryReturnsNone ==
    /\ pc = "primary"
    /\ primary' = [kind |-> "none"]
    /\ outcome' = AfterFailure(NoInfoError)
    /\ pc' = "raised"
    /\ UNCHANGED <<auxvars, ui_enabled, workers, request, dir_exists, optvars, calls, fallback_answer, fallback, sigvars>>

\* the first call raises e; answer is what the engine would do with 'best'
PrimaryRaises(e, answer) ==
    /\ pc = "primary"
    /\ primary' = [kind |-> "raise", exc |-> e]
    /\ fallback_answer' = answer
    /\ IF RetriesOn(e)
       THEN /\ ydl_opts_fallback' = FallbackOptions(ydl_opts)
            /\ calls' = calls + 1
            /\ pc' = "fallback"
            /\ UNCHANGED outcome
       ELSE /\ outcome' = AfterFailure(e)
            /\ pc' = "raised"
            /\ UNCHANGED <<ydl_opts_fallback, calls>>
    /\ UNCHANGED <<auxvars, ui_enabled, workers, request, dir_exists, format_opts, ydl_opts, fallback, sigvars>>

FallbackReturnsInfo(filename, info) ==
    /\ pc = "fallback"
    /\ fallback_answer = "info"
    /\ fallback' = [kind |-> "info", filename |-> filename, info |-> info]
    /\ outcome' = Returned(ResultFileFallback(output_path, filename, info))
    /\ pc' = "returned"
    /\ UNCHANGED <<auxvars, ui_enabled, workers, request, dir_exists, optvars, calls, primary, fallback_answer, sigvars>>

FallbackReturnsNone ==
    /\ pc = "fallback"
    /\ fallback_answer = "none"
    /\ fallback' = [kind |-> "none"]
    /\ outcome' = AfterFallbackFailure(fallback')
    /\ pc' = "raised"
    /\ UNCHANGED <<auxvars, ui_enabled, workers, request, dir_exists, optvars, calls, primary, fallback_answer, sigvars>>

FallbackRaises(e) ==
    /\ pc = "fallback"
    /\ fallback_answer = "raise"
    /\ fallback' = [kind |-> "raise", exc |-> e]
    /\ outcome' = AfterFallbackFailure(fallback')
    /\ pc' = "raised"
    /\ UNCHANGED <<auxvars, ui_enabled, workers, request, dir_exists, optvars, calls, primary, fallback_answer, sigvars>>

\* the engine calls the progress hook during a call of extract_info, and the
\* hook passes the event on to the callback, progress_updated.emit
EngineProgress ==
    /\ pc \in {"primary", "fallback"}
    /\ "progress_hooks" \in DOMAIN (IF pc = "primary" THEN ydl_opts ELSE ydl_opts_fallback)
    /\ Cardinality({i \in 1..Len(channel) : channel[i].sig = "progress_updated"}) < MaxProgress
    /\ channel' = Append(channel, [sig |-> "progress_updated"])
    /\ UNCHANGED <<auxvars, ui_enabled, workers, request, dir_exists, pc, optvars, calls, primary, fallback_answer,
                   fallback, outcome, delivered>>

\* the steps of download, the engine reporting file names and info records
\* out of the given sets
DownloadStep(names, infos) ==
    \/ Prepare
    \/ InvokePrimary
    \/ pc = "primary" /\ \E f \in names, i \in infos : PrimaryReturnsInfo(f, i)
    \/ PrimaryReturnsNone
    \/ pc = "primary" /\ \E e \in EngineErrors, a \in Answers : PrimaryRaises(e, a)
    \/ pc = "fallback" /\ \E f \in names, i \in infos : FallbackReturnsInfo(f, i)
    \/ FallbackReturnsNone
    \/ pc = "fallback" /\ \E e \in EngineErrors : FallbackRaises(e)

----------------------------------------------------------------------------
(* DownloadWorker.run *)

\* RunCatches with a handler for the engine's download error alone
RunCatchesDownloadErrorOnly(e) == e.cls = "DownloadError"

\* 'except Exception' of run: the exceptions of download it catches
RunCatches(e) == TRUE

\* download returned: download_finished is emitted
WorkerFinished ==
    /\ pc = "returned"
    /\ channel' = Append(channel,
                         [sig |-> "download_finished", success |-> TRUE,
                          message |-> <<"status_complete", Basename(outcome.path)>>])
    /\ pc' = "done"
    /\ UNCHANGED <<auxvars, ui_enabled, workers, request, dir_exists, optvars, calls, primary, fallback_answer,
                   fallback, outcome, delivered>>

\* download raised: error is emitted when run catches the exception, and
\* the exception leaves run otherwise
WorkerError ==
    /\ pc = "raised"
    /\ IF RunCatches(outcome.exc)
       THEN /\ channel' = Append(channel,
                                 [sig |-> "error",
                                  message |-> <<"status_error", outcome.exc.msg>>])
            /\ pc' = "done"
       ELSE /\ pc' = "escaped"
            /\ UNCHANGED channel
    /\ UNCHANGED <<auxvars, ui_enabled, workers, request, dir_exists, optvars, calls, primary, fallback_answer,
                   fallback, outcome, delivered>>

\* set_ui_enabled that leaves the download buttons and the tabs as they are
set_ui_enabled_inputs_only(enabled) == TRUE

\* set_ui_enabled(enabled): the enabled state of the download buttons, of the
\* inputs and of the tab widget after the call
set_ui_enabled(enabled) == enabled

\* the signals whose slot is download_finished or download_error
IsTerminalSignal(s) == s.sig \in {"download_finished", "error"}

\* the slots with download_error leaving the controls as they are
EnablesUiOnFinished(s) == s.sig = "download_finished"

\* download_finished and download_error call set_ui_enabled(True),
\* update_progress does not
EnablesUi(s) == s.sig \in {"download_finished", "error"}

\* the consumer's thread runs the slot connected to the oldest signal not yet
\* received (update_progress, download_finished or download_error)
Deliver ==
    /\ delivered < Len(channel)
    /\ delivered' = delivered + 1
    /\ LET s == channel[delivered + 1]
       IN  /\ ui_enabled' = IF EnablesUi(s) THEN set_ui_enabled(TRUE) ELSE ui_enabled
           /\ workers' = IF IsTerminalSignal(s) THEN workers - 1 ELSE workers
    /\ UNCHANGED <<auxvars, request, dir_exists, pc, optvars, calls, primary,
                   fallback_answer, fallback, outcome, channel>>

\* the signals the consumer has received, in order
Received == SubSeq(channel, 1, delivered)

----------------------------------------------------------------------------
(* Specifications *)

\* a run of the worker: every request, a small engine
Init ==
    /\ InitOf({<<"d">>}, FormatOptions, Codecs, Referrers, {TRUE})
    /\ JsonIdle
    /\ UiStarted
    /\ HookIdle
    /\ FmtIdle

Next ==
    \/ DownloadStep(MockNames, MockInfos)
    \/ EngineProgress
    \/ WorkerFinished
    \/ WorkerError
    \/ Deliver

Spec == Init /\ [][Next]_vars

\* download called without a callback: one request per destination, the
\* engine reporting every file name and info record within the bounds
OutputPaths == {<<"d">>, <<"d", Sep>>, <<"d", Sep, "e">>}

InitPaths ==
    /\ InitOf(OutputPaths, {"best"}, {"h264"}, {None}, {FALSE})
    /\ JsonIdle
    /\ UiIdle
    /\ HookIdle
    /\ FmtIdle

NextPaths == DownloadStep(AllNames, AllInfos)

SpecPaths == InitPaths /\ [][NextPaths]_vars

----------------------------------------------------------------------------
(* Claims on the retry and on the failure reported *)

\* the first call failed with the text "Requested format is not available"
PrimaryFormatUnavailable ==
    primary.kind = "raise" /\ IsFormatUnavailable(primary.exc.msg)

\* C1: whenever the first call fails with a format-unavailable failure,
\* whatever the class of the exception, and the engine succeeds on the
\* fallback query, download returns the path derived from the second call
\* and extract_info has been called exactly twice.
C1_FallbackRecovers ==
    (pc \in Ended /\ PrimaryFormatUnavailable /\ fallback_answer = "info")
        => /\ calls = 2
           /\ fallback.kind = "info"
           /\ outcome = Returned(ResultFileFallback(output_path, fallback.filename,
                                                    fallback.info))

\* C2: extract_info is called at most twice; a second call is made only
\* after the first failed as format-unavailable; a first call that succeeds,
\* returns no info or fails otherwise leaves exactly one call; once the
\* second call has ended the run has ended, with no third call.
C2_AtMostOneRetry ==
    /\ calls <= 2
    /\ calls = 2 => PrimaryFormatUnavailable
    /\ (pc \in Ended /\ ~PrimaryFormatUnavailable) => calls = 1
    /\ fallback.kind # "pending" => (pc \in Ended /\ calls = 2)

\* a retry that failed, after which the run ended
C2_Witness ==
    pc = "done" /\ calls = 2 /\ fallback.kind = "raise" /\ primary.kind = "raise"

\* C3: when the engine returns no info record, the failure download raises
\* carries the message of 'error_no_video_info', which differs from the
\* message raised for every other failure.
C3_NoInfoReported ==
    (pc \in Ended /\ primary.kind = "none")
        => /\ outcome.kind = "raise"
           /\ outcome.exc.msg = get_text("error_no_video_info")
           /\ \A e \in EngineErrors : AfterFailure(e) # outcome

\* C4: when the first call fails as format-unavailable and the second call
\* fails too, by any exception or by returning no info, download raises
\* what the format-unavailable failure alone makes it raise; the failure of
\* the second call is not what is reported.
C4_FallbackFailureKeepsReason ==
    (pc \in Ended /\ fallback.kind \in {"none", "raise"})
        => /\ PrimaryFormatUnavailable
           /\ outcome = AfterFailure(primary.exc)
           /\ outcome.exc.cls = "Exception"

\* the second call failed with an exception of another class and message
C4_Witness ==
    /\ pc \in Ended
    /\ fallback.kind = "raise"
    /\ fallback.exc = [cls |-> "DownloadError", msg |-> OtherMsg]

\* C5: the consumer receives progress_updated signals and then exactly one
\* of download_finished and error once the run has ended; no signal follows
\* that one; no exception of download leaves run.
IsTerminal(s) == s.sig \in {"download_finished", "error"}

C5_OneTerminalLast ==
    LET terminals == {i \in 1..Len(channel) : IsTerminal(channel[i])}
    IN  /\ pc # "escaped"
        /\ Cardinality(terminals) <= 1
        /\ \A i \in terminals : i = Len(channel)
        /\ (pc = "done") <=> (terminals # {})
        /\ pc = "done" =>
               channel[Len(channel)].sig =
                   (IF outcome.kind = "return" THEN "download_finished" ELSE "error")
        /\ \A i \in 1..delivered : IsTerminal(Received[i]) => i = delivered
        /\ \A i \in 1..delivered : Received[i] = channel[i]

\* two progress signals and then the error signal, all received
C5_Witness ==
    /\ pc = "done"
    /\ delivered = 3
    /\ Received[1].sig = "progress_updated"
    /\ Received[2].sig = "progress_updated"
    /\ Received[3].sig = "error"

----------------------------------------------------------------------------
(* Claims on the path returned *)

\* the last n characters of p
Suffix(p, n) == SubSeq(p, Len(p) - n + 1, Len(p))

\* the last component of a path: its longest separator-free suffix
LastComponent(p) ==
    LET n == CHOOSE n \in 0..Len(p) :
                 /\ \A i \in 1..n : Suffix(p, n)[i] # Sep
                 /\ n = Len(p) \/ p[Len(p) - n] = Sep
    IN  Suffix(p, n)

\* a name has an extension when its last component holds a dot after some
\* other character; the extension is what follows the last dot
HasExtension(p) ==
    LET c == LastComponent(p)
    IN  \E i, j \in 1..Len(c) : i < j /\ c[i] # ExtSep /\ c[j] = ExtSep

ExtensionOf(p) ==
    LET c == LastComponent(p)
        n == CHOOSE n \in 0..Len(c) :
                 /\ \A i \in 1..n : Suffix(c, n)[i] # ExtSep
                 /\ n = Len(c) \/ c[Len(c) - n] = ExtSep
    IN  Suffix(c, n)

\* the calls of extract_info that returned an info record
InfoResults == {r \in {primary, fallback} : r.kind = "info"}

\* C6: whenever the info record carries 'ext' and the extension of the file
\* name reported by prepare_filename differs from it, the path returned has
\* the extension info['ext'], after the first call and after the second.
C6_ExtensionCorrected ==
    \A r \in InfoResults :
        (/\ outcome.kind = "return"
         /\ "ext" \in DOMAIN r.info
         /\ HasExtension(r.filename)
         /\ ExtensionOf(r.filename) # r.info.ext)
            => /\ HasExtension(outcome.path)
               /\ ExtensionOf(outcome.path) = r.info.ext

\* the destination directory as the prefix of a path below it
DirPrefix(dir) == IF Len(dir) = 0 \/ dir[Len(dir)] = Sep THEN dir ELSE dir \o <<Sep>>

\* C7: the path returned is the destination directory joined with one
\* component free of separators, the last component of the reported file
\* name, unchanged when the reported extension is info['ext'] (or there is
\* no 'ext') and otherwise either unchanged or ending in '.' + info['ext'].
C7_PathIsDirPlusBasename ==
    \A r \in InfoResults :
        outcome.kind = "return" =>
            LET prefix == DirPrefix(output_path)
                path == outcome.path
                comp == SubSeq(path, Len(prefix) + 1, Len(path))
                matches == \/ "ext" \notin DOMAIN r.info
                           \/ /\ HasExtension(r.filename)
                              /\ ExtensionOf(r.filename) = r.info.ext
            IN  /\ Len(path) >= Len(prefix)
                /\ SubSeq(path, 1, Len(prefix)) = prefix
                /\ \A i \in 1..Len(comp) : comp[i] # Sep
                /\ matches => comp = LastComponent(r.filename)
                /\ ~matches => \/ comp = LastComponent(r.filename)
                               \/ EndsWith(comp, <<ExtSep>> \o r.info.ext)

\* a reported name with a directory in front, its extension the info's
C7_Witness ==
    /\ outcome.kind = "return"
    /\ primary.kind = "info"
    /\ "ext" \in DOMAIN primary.info
    /\ primary.filename = <<"a", Sep, "b", ExtSep>> \o primary.info.ext
    /\ outcome.path = DirPrefix(output_path) \o <<"b", ExtSep>> \o primary.info.ext

----------------------------------------------------------------------------
(* Claims on the preparation *)

BuiltOptions == {o \in {ydl_opts, ydl_opts_fallback} : o # Unset}

\* C9: the options hold http_headers iff the referrer is a non-empty string,
\* and then exactly Referer = the referrer and the fixed User-Agent; this
\* for the options of the first call and for those of the fallback.
C9_HeadersIffReferrer ==
    \A o \in BuiltOptions :
        /\ ("http_headers" \in DOMAIN o) <=> (referrer \notin {None, ""})
        /\ "http_headers" \in DOMAIN o =>
               /\ DOMAIN o.http_headers = {"Referer", "User-Agent"}
               /\ o.http_headers["Referer"] = referrer
               /\ o.http_headers["User-Agent"] = UserAgent

\* fallback options built for a request with a referrer
C9_Witness ==
    /\ ydl_opts_fallback # Unset
    /\ referrer = "https://r.example"
    /\ "http_headers" \in DOMAIN ydl_opts_fallback

KnownTiers == {"best", "1080", "720", "480", "mp3", "m4a"}

\* C10: for every quality tier and codec, known or not, the format options
\* hold a 'format' query with at least one alternative, none of them empty,
\* and for an unrecognized tier they are those of 'best' with the same codec.
C10_FormatOptionsTotal ==
    format_opts # Unset =>
        /\ "format" \in DOMAIN format_opts
        /\ Len(format_opts.format) > 0
        /\ \A i \in 1..Len(format_opts.format) : Len(format_opts.format[i]) > 0
        /\ format_option \notin KnownTiers =>
               format_opts = _get_format_options("best", codec)

\* an unrecognized tier with an unrecognized codec
C10_Witness ==
    /\ format_opts # Unset
    /\ format_option \notin KnownTiers
    /\ codec \notin {"h264", "av1"}
    /\ format_opts.format[1][1].filters = <<Vcodec("av01")>>

----------------------------------------------------------------------------
(* VideoDownloader._format_time and VideoDownloader._format_size *)

\* the base of the unit ladder
Base == 1024

\* _format_time with the first branch taken up to 60 seconds included
_format_time_upto(seconds) ==
    IF seconds <= 60
    THEN <<get_text("time_seconds"), [seconds |-> seconds]>>
    ELSE IF seconds < 3600
    THEN <<get_text("time_minutes_seconds"),
           [minutes |-> seconds \div 60, seconds |-> seconds % 60]>>
    ELSE <<get_text("time_hours_minutes"),
           [hours |-> seconds \div 3600, minutes |-> (seconds % 3600) \div 60]>>

\* _format_time: the text is the template of the form with its fields;
\* divmod of non-negative integers is \div and %
_format_time(seconds) ==
    IF seconds < 60
    THEN <<get_text("time_seconds"), [seconds |-> seconds]>>
    ELSE IF seconds < 3600
    THEN LET minutes == seconds \div 60
             seconds_ == seconds % 60
         IN  <<get_text("time_minutes_seconds"),
               [minutes |-> minutes, seconds |-> seconds_]>>
    ELSE LET hours == seconds \div 3600
             remainder == seconds % 3600
             minutes == remainder \div 60
         IN  <<get_text("time_hours_minutes"), [hours |-> hours, minutes |-> minutes]>>

\* A byte count is its digits in base 1024, most significant first and
\* without leading zeros; bytes_ after i divisions by 1024.0 is the same
\* digits with the last i of them behind the point.  The counts are those a
\* float holds exactly (at most five digits that are not trailing zeros),
\* for which the divisions are exact as well.
Number(digits) == [digits |-> digits, shift |-> 0]

IntDigits(x) == SubSeq(x.digits, 1, Len(x.digits) - x.shift)
FracDigits(x) == SubSeq(x.digits, Len(x.digits) - x.shift + 1, Len(x.digits))

RECURSIVE IntValue(_)
IntValue(ds) == IF ds = <<>> THEN 0 ELSE IntValue(SubSeq(ds, 1, Len(ds) - 1)) * Base + ds[Len(ds)]

AllZero(ds) == \A i \in 1..Len(ds) : ds[i] = 0

\* bytes_ <= 1024.0
AtMost1024(x) ==
    \/ Len(IntDigits(x)) <= 1
    \/ IntDigits(x) = <<1, 0>> /\ AllZero(FracDigits(x))

\* bytes_ < 1024.0
LessThan1024(x) == Len(IntDigits(x)) <= 1

\* bytes_ /= 1024.0
Div1024(x) == [x EXCEPT !.shift = @ + 1]

\* 100 times a fraction: the digits of the fraction of the product and the
\* whole part carried out of it
RECURSIVE Mul100(_)
Mul100(fs) ==
    IF fs = <<>>
    THEN [carry |-> 0, digits |-> <<>>]
    ELSE LET r == Mul100(Tail(fs))
             t == Head(fs) * 100 + r.carry
         IN  [carry |-> t \div Base, digits |-> <<t % Base>> \o r.digits]

\* a fraction against one half
CmpHalf(fs) ==
    IF fs = <<>> THEN "below"
    ELSE IF Head(fs) > Base \div 2 THEN "above"
    ELSE IF Head(fs) < Base \div 2 THEN "below"
    ELSE IF AllZero(Tail(fs)) THEN "tie" ELSE "above"

\* f"{bytes_:.2f}": the nearest number of hundredths, a tie going to the
\* even one
TwoDecimals(x) ==
    LET m == Mul100(FracDigits(x))
        c == CmpHalf(m.digits)
        up == c = "above" \/ (c = "tie" /\ m.carry % 2 = 1)
        h == m.carry + (IF up THEN 1 ELSE 0)
    IN  [whole |-> IntValue(IntDigits(x)) + (IF h = 100 THEN 1 ELSE 0),
         cents |-> h % 100]

units == <<get_text("unit_bytes"), get_text("unit_kb"), get_text("unit_mb"),
           get_text("unit_gb"), get_text("unit_tb")>>

\* the loop over units from the i-th on, and the return after it
RECURSIVE SizeLoop(_, _)
SizeLoop(x, i) ==
    IF i > Len(units)
    THEN [number |-> TwoDecimals(x), unit |-> get_text("unit_pb")]
    ELSE IF LessThan1024(x)
    THEN [number |-> TwoDecimals(x), unit |-> units[i]]
    ELSE SizeLoop(Div1024(x), i + 1)

_format_size(bytes_) == SizeLoop(Number(bytes_), 1)

\* the arguments of the calls
MaxSeconds == 7300
MaxSizeDigits == 7
SizeDigits == {0, 1, 128, 500, 1023}
Zeros(n) == [i \in 1..n |-> 0]
Sizes ==
    {<<0>>} \cup
    UNION { { m \o Zeros(z) : z \in 0..(MaxSizeDigits - Len(m)) } :
            m \in {x \in SeqsOf(SizeDigits, 1, 5) : x[1] # 0} }

Value(v) == [kind |-> "returned", value |-> v]

FormatTimeCall ==
    /\ call.kind = "_format_time"
    /\ ret = Unset
    /\ ret' = Value(_format_time(call.arg))
    /\ UNCHANGED <<hookvars, call, jsonvars, fields, uivars, request, dir_exists, pc, optvars, calls, primary,
                   fallback_answer, fallback, outcome, sigvars>>

FormatSizeCall ==
    /\ call.kind = "_format_size"
    /\ ret = Unset
    /\ ret' = Value(_format_size(call.arg))
    /\ UNCHANGED <<hookvars, call, jsonvars, fields, uivars, request, dir_exists, pc, optvars, calls, primary,
                   fallback_answer, fallback, outcome, sigvars>>

\* a downloader that is not downloading, and one call of a formatting
\* function on it
InitFormat ==
    /\ InitOf({<<"d">>}, {"best"}, {"h264"}, {None}, {TRUE})
    /\ dir_before
    /\ JsonIdle
    /\ UiIdle
    /\ HookIdle
    /\ call \in [kind : {"_format_time"}, arg : 0..MaxSeconds]
                \cup [kind : {"_format_size"}, arg : Sizes]
    /\ ret = Unset

NextFormat == FormatTimeCall \/ FormatSizeCall

SpecFormat == InitFormat /\ [][NextFormat]_vars

----------------------------------------------------------------------------
(* Claims on the formatting functions *)

\* C14: for s seconds, s >= 0, _format_time gives the seconds form with
\* N = s when s < 60; the minutes-seconds form with 60*M + S = s and
\* 0 <= S < 60 when 60 <= s < 3600; the hours-minutes form with
\* H = s div 3600 and M = (s mod 3600) div 60, 0 <= M < 60, when s >= 3600;
\* 30 gives (30 sec), 90 gives (1 min 30 sec), 3661 gives (1 hr 1 min).
C14_FormatTime ==
    (call # Unset /\ call.kind = "_format_time" /\ ret # Unset) =>
        LET s == call.arg
            form == ret.value[1]
            f == ret.value[2]
        IN  /\ s < 60 => /\ form = get_text("time_seconds")
                         /\ f = [seconds |-> s]
            /\ (60 <= s /\ s < 3600) =>
                   /\ form = get_text("time_minutes_seconds")
                   /\ DOMAIN f = {"minutes", "seconds"}
                   /\ 60 * f.minutes + f.seconds = s
                   /\ 0 <= f.seconds /\ f.seconds < 60
            /\ s >= 3600 =>
                   /\ form = get_text("time_hours_minutes")
                   /\ DOMAIN f = {"hours", "minutes"}
                   /\ 0 <= f.minutes /\ f.minutes < 60
                   /\ 3600 * f.hours + 60 * f.minutes <= s
                   /\ s < 3600 * f.hours + 60 * f.minutes + 60
            /\ s = 30 => f = [seconds |-> 30]
            /\ s = 90 => f = [minutes |-> 1, seconds |-> 30]
            /\ s = 3661 => f = [hours |-> 1, minutes |-> 1]

\* one hour, one minute and one second has been formatted
C14_Witness ==
    /\ call # Unset
    /\ call.kind = "_format_time"
    /\ call.arg = 3661
    /\ ret = Value(<<get_text("time_hours_minutes"), [hours |-> 1, minutes |-> 1]>>)

\* the ladder of units, index 0 first
Ladder == <<get_text("unit_bytes"), get_text("unit_kb"), get_text("unit_mb"),
            get_text("unit_gb"), get_text("unit_tb"), get_text("unit_pb")>>

\* the smallest k with n / 1024^k < 1024, that is with n < 1024^(k+1), at
\* most 5
UnitIndex(digits) == IF Len(digits) - 1 < 5 THEN Len(digits) - 1 ELSE 5

\* _format_size has been called on n and has returned the unit of the claim
SizeCallDone == call # Unset /\ call.kind = "_format_size" /\ ret # Unset

\* the whole part of n / 1024^k
WholePart(digits) == IntValue(SubSeq(digits, 1, Len(digits) - UnitIndex(digits)))

SizeExamples ==
    /\ call.arg = <<500>> =>
           ret.value = [number |-> [whole |-> 500, cents |-> 0], unit |-> Ladder[1]]
    /\ call.arg = <<1, 0>> =>
           ret.value = [number |-> [whole |-> 1, cents |-> 0], unit |-> Ladder[2]]
    /\ call.arg = <<1, 0, 0>> =>
           ret.value = [number |-> [whole |-> 1, cents |-> 0], unit |-> Ladder[3]]
    /\ call.arg = <<1, 0, 0, 0>> =>
           ret.value = [number |-> [whole |-> 1, cents |-> 0], unit |-> Ladder[4]]

\* C15 as stated: for a byte count n >= 0, _format_size takes the unit at
\* the smallest index k with n / 1024^k < 1024, k = 5 (PB) when there is
\* none below; the number displayed is n / 1024^k; 500 gives 500 bytes,
\* 1024 gives 1 KB, 1024^2 1 MB, 1024^3 1 GB; and for n < 1024^6 the number
\* displayed is below 1024.
C15_Original ==
    SizeCallDone =>
        /\ ret.value.unit = Ladder[UnitIndex(call.arg) + 1]
        /\ ret.value.number.whole \in {WholePart(call.arg), WholePart(call.arg) + 1}
        /\ SizeExamples
        /\ Len(call.arg) <= 6 => ret.value.number.whole < Base

\* C15, amended: the unit is as stated and n / 1024^k is below 1024 for
\* n < 1024^6; the number displayed is n / 1024^k rounded to two decimals
\* (n / 1024^k itself when it has no fraction), so it is at most 1024.00
\* and reads 1024.00 for the counts just below the next unit.
C15_SizeLadder ==
    SizeCallDone =>
        LET n == call.arg
            k == UnitIndex(n)
            shown == ret.value.number
        IN  /\ ret.value.unit = Ladder[k + 1]
            /\ shown.cents \in 0..99
            /\ shown.whole \in {WholePart(n), WholePart(n) + 1}
            /\ AllZero(SubSeq(n, Len(n) - k + 1, Len(n))) =>
                   shown = [whole |-> WholePart(n), cents |-> 0]
            /\ SizeExamples
            /\ Len(n) <= 6 =>
                   /\ WholePart(n) < Base
                   /\ shown.whole < Base \/ shown = [whole |-> Base, cents |-> 0]

\* one byte less than a megabyte is displayed as 1024.00 kilobytes
C15_Witness ==
    /\ SizeCallDone
    /\ call.arg = <<1023, 1023>>
    /\ ret.value = [number |-> [whole |-> Base, cents |-> 0], unit |-> Ladder[2]]

----------------------------------------------------------------------------
(* VideoDownloader._progress_hook and MainWindow.update_progress *)

MaxBytes == 2

\* the values of an event: None, an integer, a byte rate (its digits in
\* base 1024)
PyNone == [py |-> "None"]
PyInt(n) == [py |-> "int", v |-> n]
PyNum(digits) == [py |-> "num", v |-> digits]

\* the texts of the source that are not in Latin letters, transliterated
Unknown == "Neizvestno"
UnknownError == "Neizvestnaya oshibka"

\* a percentage as the exact quotient num / den, den > 0
Pct(num, den) == [num |-> num, den |-> den]

\* d.get(key, default)
Get(ev, key, default) == IF key \in DOMAIN ev THEN ev[key] ELSE default

\* the outcome of x > 0
GreaterThanZero(x) ==
    IF x.py = "None" THEN [raised |-> TRUE, exc |-> "TypeError"]
    ELSE [raised |-> FALSE, value |-> x.v > 0]

\* f"{percent:.1f}": the nearest number of tenths, a tie going to the even one
OneDecimal(p) ==
    LET q == 10 * p.num
        t == q \div p.den
        r == q % p.den
    IN  IF 2 * r > p.den \/ (2 * r = p.den /\ t % 2 = 1) THEN t + 1 ELSE t

\* if speed: ... else: ...
SpeedStr(speed) ==
    IF speed.py = "None" \/ speed.v = <<0>> THEN Unknown
    ELSE [size |-> _format_size(speed.v), per |-> "/s"]

\* if eta: ... else: ...
EtaStr(eta) ==
    IF eta.py = "None" \/ eta.v = 0 THEN Unknown ELSE _format_time(eta.v)

\* what one call of the hook does: the pairs given to progress_callback
\* and the exception that leaves the hook, None when it returns
Delivers(percent, message) ==
    [exc |-> None, sink |-> <<[percent |-> percent, message |-> message]>>]
Raises(cls) == [exc |-> cls, sink |-> <<>>]

\* the callback of a 'downloading' event once percent is computed
Downloading(ev, percent) ==
    Delivers(percent,
             <<get_text("status_downloading"),
               [progress |-> OneDecimal(percent),
                speed |-> SpeedStr(Get(ev, "speed", PyNum(<<0>>))),
                eta |-> EtaStr(Get(ev, "eta", PyInt(0)))]>>)

\* the branch of a 'downloading' event
HookDownloading(ev) ==
    LET byTotal == Downloading(ev, Pct(100 * ev.downloaded_bytes, ev.total_bytes.v))
        byEstimate ==
            Downloading(ev, Pct(100 * ev.downloaded_bytes, ev.total_bytes_estimate.v))
        unknown == Downloading(ev, Pct(0, 1))
        estimate ==
            IF "total_bytes_estimate" \in DOMAIN ev
            THEN LET g == GreaterThanZero(ev.total_bytes_estimate)
                 IN  IF g.raised THEN Raises(g.exc)
                     ELSE IF g.value THEN byEstimate ELSE unknown
            ELSE unknown
    IN  IF "total_bytes" \in DOMAIN ev
        THEN LET g == GreaterThanZero(ev.total_bytes)
             IN  IF g.raised THEN Raises(g.exc)
                 ELSE IF g.value THEN byTotal ELSE estimate
        ELSE estimate

\* a logger whose call raises what its handlers could not write
LoggerRaisesHandlerError(fails) == fails

\* self.logger.info / self.logger.error: the logger is a logging.Logger with
\* a RotatingFileHandler and a StreamHandler, and each of them hands the
\* failure of its own write to Handler.handleError; the call returns
LoggerRaises(fails) == FALSE

\* the branch of a 'finished' event with the file name given whole
HookFinishedWholeName(ev, fails) ==
    IF LoggerRaises(fails) THEN Raises("OSError")
    ELSE Delivers(Pct(100, 1), <<get_text("status_processing"), ev.filename>>)

\* the branch of a 'finished' event
HookFinished(ev, fails) ==
    LET filename == Basename(ev.filename)
    IN  IF LoggerRaises(fails) THEN Raises("OSError")
        ELSE Delivers(Pct(100, 1), <<get_text("status_processing"), filename>>)

\* the branch of an 'error' event with the record written and no callback
HookErrorLogsOnly(ev, fails) ==
    IF LoggerRaises(fails) THEN Raises("OSError") ELSE [exc |-> None, sink |-> <<>>]

\* the branch of an 'error' event
HookError(ev, fails) ==
    LET error_msg == Get(ev, "error", UnknownError)
    IN  IF LoggerRaises(fails) THEN Raises("OSError")
        ELSE Delivers(Pct(0, 1), <<get_text("status_error"), error_msg>>)

\* hook(d)
hook(ev, fails) ==
    CASE ev.status = "downloading" -> HookDownloading(ev)
      [] ev.status = "finished" -> HookFinished(ev, fails)
      [] ev.status = "error" -> HookError(ev, fails)
      [] OTHER -> [exc |-> None, sink |-> <<>>]

\* int(progress)
IntOf(p) == IF p.num >= 0 THEN p.num \div p.den ELSE -((-p.num) \div p.den)

\* progress_bar.setValue(v) on a bar of range 0..100: a value outside the
\* range is not taken
SetValue(bar, v) == IF v < 0 \/ v > 100 THEN bar ELSE v

\* the hook is called with the event
HookCall ==
    /\ hook_pc = "called"
    /\ LET r == hook(d, handler_fails)
       IN  /\ sink' = r.sink
           /\ hook_exc' = r.exc
           /\ hook_pc' = IF r.exc = None THEN "returned" ELSE "raised"
    /\ UNCHANGED <<d, handler_fails, consumed, bar_before, progress_bar, progress_label>>
    /\ UNCHANGED <<fmtvars, jsonvars, fields, uivars, request, dir_exists, pc, optvars, calls, primary,
                   fallback_answer, fallback, outcome, sigvars>>

\* update_progress receives the next pair
UpdateProgress ==
    /\ consumed < Len(sink)
    /\ LET e == sink[consumed + 1]
       IN  /\ progress_bar' = SetValue(progress_bar, IntOf(e.percent))
           /\ progress_label' = e.message
    /\ consumed' = consumed + 1
    /\ UNCHANGED <<d, handler_fails, hook_pc, hook_exc, sink, bar_before>>
    /\ UNCHANGED <<fmtvars, jsonvars, fields, uivars, request, dir_exists, pc, optvars, calls, primary,
                   fallback_answer, fallback, outcome, sigvars>>

\* the events of the engine
Opt(key, values) == {EmptyDict} \cup {key :> v : v \in values}
Totals == {PyNone} \cup {PyInt(n) : n \in -1..MaxBytes}
Speeds == {PyNone, PyNum(<<0>>), PyNum(<<500>>), PyNum(<<1, 0>>)}
Etas == {PyNone, PyInt(0), PyInt(90)}
Filenames == {<<"d", Sep, "t", ExtSep, "a">>, <<"t", ExtSep, "b">>}
Errors == {"HTTP Error 403"}

DownloadingEvents ==
    { [status |-> "downloading", downloaded_bytes |-> n, filename |-> f]
          @@ tb @@ te @@ sp @@ et :
      n \in 0..MaxBytes, f \in Filenames,
      tb \in Opt("total_bytes", Totals),
      te \in Opt("total_bytes_estimate", Totals),
      sp \in Opt("speed", Speeds),
      et \in Opt("eta", Etas) }

FinishedEvents ==
    { [status |-> "finished", filename |-> f] @@ tb :
      f \in Filenames, tb \in Opt("total_bytes", Totals) }

ErrorEvents == { [status |-> "error"] @@ er : er \in Opt("error", Errors) }

Events == DownloadingEvents \cup FinishedEvents \cup ErrorEvents

\* a download under way with a progress callback, the bar at some value, and
\* the engine calling the hook with one event
InitHook ==
    /\ InitOf({<<"d">>}, {"best"}, {"h264"}, {None}, {TRUE})
    /\ dir_before
    /\ JsonIdle
    /\ UiStarted
    /\ FmtIdle
    /\ d \in Events
    /\ handler_fails \in BOOLEAN
    /\ hook_pc = "called"
    /\ hook_exc = None
    /\ sink = <<>>
    /\ consumed = 0
    /\ bar_before \in {0, 50}
    /\ progress_bar = bar_before
    /\ progress_label = <<get_text("status_starting_download")>>

NextHook == HookCall \/ UpdateProgress

SpecHook == InitHook /\ [][NextHook]_vars

----------------------------------------------------------------------------
(* MainWindow.process_json_file *)

\* the values of a document: the values json.load builds, a dict being its
\* entries in stored order
PyStr(chars) == [py |-> "str", s |-> chars]
PyBool(b) == [py |-> "bool", b |-> b]
PyList(items) == [py |-> "list", items |-> items]
PyDict(items) == [py |-> "dict", items |-> items]
Entry(k, v) == [k |-> k, v |-> v]

\* the truth value of a value
PyTruthy(x) ==
    CASE x.py = "None" -> FALSE
      [] x.py = "str" -> x.s # <<>>
      [] x.py = "int" -> x.v # 0
      [] x.py = "bool" -> x.b
      [] OTHER -> x.items # <<>>

Marker == <<".", "m", "3", "u", "8">>

\* sub in s
Contains(s, sub) == \E i \in 1..(Len(s) - Len(sub) + 1) : SubSeq(s, i, i + Len(sub) - 1) = sub

\* s.find(sub): the index, from 0, of the first occurrence, -1 without one
Find(s, sub) ==
    IF Contains(s, sub)
    THEN (CHOOSE i \in 1..(Len(s) - Len(sub) + 1) :
              /\ SubSeq(s, i, i + Len(sub) - 1) = sub
              /\ \A j \in 1..(i - 1) : SubSeq(s, j, j + Len(sub) - 1) # sub) - 1
    ELSE -1

\* a string value taken for any string
IsCandidateAnyString(v) == v.py = "str"

\* isinstance(v, str) and '.m3u8' in v
IsCandidate(v) == v.py = "str" /\ Contains(v.s, Marker)

\* a search that goes down into dicts alone
DescendsDictOnly(v) == v.py = "dict"

\* isinstance(v, (dict, list))
Descends(v) == v.py \in {"dict", "list"}

RECURSIVE find_m3u8_url(_), DictLoop(_, _), ListLoop(_, _)

\* for k, v in obj.items(), from the i-th entry on
DictLoop(items, i) ==
    IF i > Len(items) THEN PyNone
    ELSE LET k == items[i].k
             v == items[i].v
         IN  IF k = "shakahls" /\ v.py = "str" THEN v
             ELSE IF IsCandidate(v) THEN v
             ELSE IF Descends(v)
             THEN LET result == find_m3u8_url(v)
                  IN  IF PyTruthy(result) THEN result ELSE DictLoop(items, i + 1)
             ELSE DictLoop(items, i + 1)

\* for i, item in enumerate(obj), from the i-th item on
ListLoop(items, i) ==
    IF i > Len(items) THEN PyNone
    ELSE LET item == items[i]
         IN  IF IsCandidate(item) THEN item
             ELSE IF Descends(item)
             THEN LET result == find_m3u8_url(item)
                  IN  IF PyTruthy(result) THEN result ELSE ListLoop(items, i + 1)
             ELSE ListLoop(items, i + 1)

find_m3u8_url(obj) ==
    IF obj.py = "dict" THEN DictLoop(obj.items, 1)
    ELSE IF obj.py = "list" THEN ListLoop(obj.items, 1)
    ELSE PyNone

\* the value under a key of a dict
DictGet(obj, key) ==
    LET i == CHOOSE i \in 1..Len(obj.items) : obj.items[i].k = key IN obj.items[i].v

HasKey(obj, key) == \E i \in 1..Len(obj.items) : obj.items[i].k = key

\* a URL kept whole
Untruncated(x) == x

\* the URL cut after '.m3u8': shakahls[:m3u8_index + 5]
Truncated(x) ==
    IF PyTruthy(x) /\ Contains(x.s, Marker)
    THEN LET m3u8_index == Find(x.s, Marker)
         IN  IF m3u8_index # -1 THEN PyStr(SubSeq(x.s, 1, m3u8_index + 5)) ELSE x
    ELSE x

\* the locals referrer and shakahls after the search, and the result of
\* find_m3u8_url
Located(doc) ==
    IF doc.py = "dict"
    THEN [referrer |-> IF HasKey(doc, "referrer") THEN DictGet(doc, "referrer") ELSE PyNone,
          found |-> find_m3u8_url(doc),
          shakahls |-> Truncated(find_m3u8_url(doc))]
    ELSE [referrer |-> PyNone, found |-> PyNone, shakahls |-> PyNone]

\* QLineEdit.setText takes a str; any other value raises TypeError
SetTextRaises(x) == x.py # "str"

\* the file given
JsonPath == <<"d", Sep, "v", ExtSep, "j", "s", "o", "n">>

\* process_json_file(file_path) on a file that holds the document doc
ProcessJsonFile(file_path, doc) ==
    LET r == Located(doc)
    IN  /\ data' = doc
        /\ json_pc' = "done"
        /\ found' = r.found
        /\ shakahls' = r.shakahls
        /\ json_referrer' = r.referrer
        /\ IF ~PyTruthy(r.shakahls)
           THEN /\ json_info_label' = "not_found"
                /\ json_exc' = None
                /\ UNCHANGED fields
           ELSE IF PyTruthy(r.referrer) /\ SetTextRaises(r.referrer)
           THEN /\ json_info_label' = "error"
                /\ json_exc' = "TypeError"
                /\ UNCHANGED fields
           ELSE /\ json_info_label' = "loaded"
                /\ json_exc' = None
                /\ referrer_input' =
                       IF PyTruthy(r.referrer) THEN r.referrer.s ELSE referrer_input
                /\ kinescope_url_input' = r.shakahls.s
                /\ filename_input' =
                       IF filename_input = <<>>
                       THEN SplitextRoot(Basename(file_path))
                       ELSE filename_input
    /\ UNCHANGED <<hookvars, fmtvars, uivars, request, dir_exists, pc, optvars, calls,
                   primary, fallback_answer, fallback, outcome, sigvars>>

\* the documents: strings with and without the marker, scalars, and
\* containers of them up to MaxItems entries at the top
MaxItems == 2
UrlQuery == <<"x", ".", "m", "3", "u", "8", "?", "t">>
UrlTwice == <<"y", ".", "m", "3", "u", "8", "/", ".", "m", "3", "u", "8">>
Plain == <<"r">>
Scalars ==
    {PyStr(UrlQuery), PyStr(UrlTwice), PyStr(Plain), PyStr(<<>>),
     PyInt(5), PyBool(TRUE), PyNone}
Inner ==
    { PyDict(<<Entry("shakahls", PyStr(UrlQuery))>>),
      PyDict(<<Entry("shakahls", PyStr(<<>>))>>),
      PyDict(<<Entry("referrer", PyStr(Plain))>>),
      PyDict(<<Entry("nested", PyStr(UrlTwice))>>),
      PyDict(<<Entry("nested", PyList(<<PyInt(5), PyStr(UrlQuery)>>))>>),
      PyList(<<>>),
      PyList(<<PyStr(Plain), PyStr(UrlTwice)>>),
      PyList(<<PyList(<<PyStr(UrlQuery)>>)>>) }
Values == Scalars \cup Inner

\* {"referrer": "r", "nested": {"shakahls": "x.m3u8?t"}}
ExampleDocument ==
    PyDict(<<Entry("referrer", PyStr(Plain)),
             Entry("nested", PyDict(<<Entry("shakahls", PyStr(UrlQuery))>>))>>)
Keys == {"referrer", "shakahls", "nested", "other"}

\* the sequences of 0..MaxItems values, and the same with distinct keys
ListsOf(n) == UNION {[1..m -> Values] : m \in 0..n}
DictsOf(n) ==
    UNION { { [i \in 1..m |-> Entry(ks[i], vs[i])] :
                ks \in {f \in [1..m -> Keys] : \A i, j \in 1..m : i # j => f[i] # f[j]},
                vs \in [1..m -> Values] } : m \in 0..n }

Documents ==
    Scalars
    \cup { PyList(items) : items \in ListsOf(MaxItems) }
    \cup { PyDict(items) : items \in DictsOf(MaxItems) }

\* a window on the Kinescope tab with its fields empty or filled before, and
\* a file dropped on it
InitJson ==
    /\ InitOf({<<"d">>}, {"best"}, {"h264"}, {None}, {TRUE})
    /\ dir_before
    /\ HookIdle
    /\ FmtIdle
    /\ UiIdle
    /\ data \in Documents
    /\ json_pc = "dropped"
    /\ found = Unset
    /\ shakahls = Unset
    /\ json_referrer = Unset
    /\ json_exc = None
    /\ json_info_label = "processing"
    /\ referrer_input = <<>>
    /\ kinescope_url_input \in {<<>>, <<"o">>}
    /\ filename_input = IF kinescope_url_input = <<>> THEN <<>> ELSE <<"n">>

NextJson == json_pc = "dropped" /\ ProcessJsonFile(JsonPath, data)

SpecJson == InitJson /\ [][NextJson]_vars

----------------------------------------------------------------------------
(* MainWindow.start_download, MainWindow.start_kinescope_download *)

\* str.strip() of a text whose only white space is the blank
RECURSIVE LStrip(_), RStrip(_)
LStrip(t) == IF t # <<>> /\ Head(t) = " " THEN LStrip(Tail(t)) ELSE t
RStrip(t) == IF t # <<>> /\ t[Len(t)] = " " THEN RStrip(SubSeq(t, 1, Len(t) - 1)) ELSE t
Strip(t) == LStrip(RStrip(t))

\* the text of the referrer field as the string the worker is given
TextOf(chars) ==
    CASE chars = <<>> -> ""
      [] chars = <<"r">> -> "https://r.example"
      [] OTHER -> "other"

\* the items of codec_combo: the text shown (transliterated) and the data
CodecItems ==
    << [text |-> "H.264 (sovmestimost)", data |-> "h264"],
       [text |-> "AV1 (luchshee kachestvo)", data |-> "av1"] >>

\* the items of kinescope_codec_combo
KinescopeCodecItems == <<"h264", "h265">>

Mp4 == <<ExtSep, "m", "p", "4">>
Mkv == <<ExtSep, "m", "k", "v">>
Avi == <<ExtSep, "a", "v", "i">>

\* full_output_path of start_kinescope_download
FullOutputPath(path, filename) ==
    IF filename # <<>>
    THEN Join(path,
              IF EndsWith(filename, Mp4) \/ EndsWith(filename, Mkv) \/ EndsWith(filename, Avi)
              THEN filename ELSE filename \o Mp4)
    ELSE path

\* a click that a warning answers: nothing but the warning happens
Rejected ==
    /\ last_click' = "rejected"
    /\ UNCHANGED <<hookvars, fmtvars, jsonvars, fields, ui_enabled, workers, url, tab,
                   origin, kinescope_codec, request, dir_exists, pc, optvars, calls,
                   primary, fallback_answer, fallback, outcome, sigvars>>

\* the interface is set for a download and a new worker is started with its
\* own VideoDownloader; the destination directory may or may not exist
StartWorker(u, path, fmt, cdc, ref, handler, selected) ==
    /\ progress_label' = <<get_text("status_starting_download")>>
    /\ progress_bar' = 0
    /\ ui_enabled' = set_ui_enabled(FALSE)
    /\ workers' = workers + 1
    /\ url' = u
    /\ output_path' = path
    /\ format_option' = fmt
    /\ codec' = cdc
    /\ referrer' = ref
    /\ progress_callback' = TRUE
    /\ dir_before' \in BOOLEAN
    /\ dir_exists' = dir_before'
    /\ pc' = "run"
    /\ format_opts' = Unset
    /\ ydl_opts' = Unset
    /\ ydl_opts_fallback' = Unset
    /\ calls' = 0
    /\ primary' = Pending
    /\ fallback_answer' = "unset"
    /\ fallback' = Pending
    /\ outcome' = Pending
    /\ channel' = <<>>
    /\ delivered' = 0
    /\ origin' = handler
    /\ kinescope_codec' = selected
    /\ last_click' = "started"
    /\ UNCHANGED <<d, handler_fails, hook_pc, hook_exc, sink, consumed, bar_before>>
    /\ UNCHANGED <<fmtvars, jsonvars, fields, tab>>

\* a click on download_button, the fields holding u and path and the combo
\* boxes being at fmt and at the item i
start_download(u, path, fmt, i) ==
    /\ tab = "general"
    /\ ui_enabled
    /\ LET codec_ == CodecItems[i].data
       IN  IF u = <<>> THEN Rejected
           ELSE IF path = <<>> THEN Rejected
           ELSE StartWorker(u, path, fmt, codec_, None, "start_download", kinescope_codec)

\* a click on kinescope_download_button, the path field holding path, the
\* codec box of the tab being at selected and codec_combo at the item i
start_kinescope_download(path, selected, i) ==
    /\ tab = "kinescope"
    /\ ui_enabled
    /\ LET referrer_ == Strip(referrer_input)
           video_url == Strip(kinescope_url_input)
           filename == Strip(filename_input)
           output_path_ == Strip(path)
           codec_ == CodecItems[i].text
       IN  IF output_path_ = <<>> THEN Rejected
           ELSE IF video_url = <<>> THEN Rejected
           ELSE StartWorker(video_url, FullOutputPath(output_path_, filename), "best",
                            codec_, IF referrer_ # <<>> THEN TextOf(referrer_) ELSE None,
                            "start_kinescope_download", selected)

\* the user goes to the other tab
TabSwitch ==
    /\ ui_enabled
    /\ tab' = IF tab = "general" THEN "kinescope" ELSE "general"
    /\ UNCHANGED <<hookvars, fmtvars, jsonvars, fields, ui_enabled, workers, url, origin,
                   kinescope_codec, last_click, request, dir_exists, pc, optvars, calls,
                   primary, fallback_answer, fallback, outcome, sigvars>>

\* the user gives a file to the drop area of the Kinescope tab
LoadJson(doc) ==
    /\ ui_enabled
    /\ tab = "kinescope"
    /\ ProcessJsonFile(JsonPath, doc)

\* what the user does in the window
UiUrls == {<<>>, <<"u">>}
UiPaths == {<<>>, <<" ">>, <<"d">>}
UiFormats == {"best", "720"}
UiDocuments == {ExampleDocument, PyDict(<<Entry("other", PyInt(5))>>)}
UiNames == {<<"t", ExtSep, "b">>}
UiInfos == {[ext |-> <<"b">>]}

UserStep ==
    \/ \E u \in UiUrls, p \in UiPaths \ {<<" ">>}, f \in UiFormats, i \in 1..Len(CodecItems) :
           start_download(u, p, f, i)
    \/ \E p \in UiPaths, i \in 1..Len(CodecItems),
          k \in 1..Len(KinescopeCodecItems) :
           start_kinescope_download(p, KinescopeCodecItems[k], i)
    \/ TabSwitch
    \/ ui_enabled /\ \E doc \in UiDocuments : LoadJson(doc)

\* what the worker, the engine and the slots do
WorkerStep ==
    \/ DownloadStep(UiNames, UiInfos)
    \/ WorkerFinished
    \/ WorkerError
    \/ Deliver

\* the window as opened: no worker yet
InitUI ==
    /\ HookIdle
    /\ FmtIdle
    /\ JsonIdle
    /\ UiIdle
    /\ output_path = <<>>
    /\ format_option = "best"
    /\ codec = "h264"
    /\ referrer = None
    /\ progress_callback = FALSE
    /\ dir_before = FALSE
    /\ dir_exists = FALSE
    /\ pc = "idle"
    /\ format_opts = Unset
    /\ ydl_opts = Unset
    /\ ydl_opts_fallback = Unset
    /\ calls = 0
    /\ primary = Pending
    /\ fallback_answer = "unset"
    /\ fallback = Pending
    /\ outcome = Pending
    /\ channel = <<>>
    /\ delivered = 0

NextUI == UserStep \/ WorkerStep \/ EngineProgress

SpecUI == InitUI /\ [][NextUI]_vars

\* the same with the worker, the engine and the slots never held back
\* for ever
SpecUILive == SpecUI /\ WF_vars(WorkerStep)

----------------------------------------------------------------------------
(* Claims on the format query *)

\* the queries the repository's test expects, in the model's form:
\* 'bestvideo[height<=720]+bestaudio/best[height<=720]/best'
Test720Query ==
    << <<Sel("bestvideo", <<HeightMax(720)>>), Sel("bestaudio", <<>>)>>,
       <<Sel("best", <<HeightMax(720)>>)>>,
       <<Sel("best", <<>>)>> >>

\* 'bestvideo+bestaudio/best'
TestBestQuery ==
    << <<Sel("bestvideo", <<>>), Sel("bestaudio", <<>>)>>, <<Sel("best", <<>>)>> >>

\* C11: with the default codec h264, the format options of 'mp3' are the
\* query 'bestaudio/best' with a first post-processor of preferredcodec
\* 'mp3', those of '720' the query
\* 'bestvideo[height<=720]+bestaudio/best[height<=720]/best', and those of
\* 'best' the query 'bestvideo+bestaudio/best'.
C11_TestedFormats ==
    (format_opts # Unset /\ codec = "h264") =>
        /\ format_option = "mp3" =>
               /\ format_opts.format = AudioQuery
               /\ format_opts.postprocessors[1].preferredcodec = "mp3"
        /\ format_option = "720" => format_opts.format = Test720Query
        /\ format_option = "best" => format_opts.format = TestBestQuery

\* a selector carries the filter f
HasFilter(sel, f) == \E i \in 1..Len(sel.filters) : sel.filters[i] = f

\* a selector names the codec tag
NamesCodec(sel, tag) == HasFilter(sel, Vcodec(tag))

\* a selector is constrained on the codec at all
CodecConstrained(sel) == \E i \in 1..Len(sel.filters) : sel.filters[i][1] = "vcodec"

C13_FallbackOnlyFormat ==
    ydl_opts_fallback # Unset =>
        /\ DOMAIN ydl_opts_fallback = DOMAIN ydl_opts
        /\ \A k \in (DOMAIN ydl_opts) \ {"format"} : ydl_opts_fallback[k] = ydl_opts[k]
        /\ ydl_opts_fallback.format = << <<Sel("best", <<>>)>> >>
        /\ ydl_opts = BuildOptions(output_path, referrer,
                                   _get_format_options(format_option, codec),
                                   progress_callback)
        /\ ydl_opts.format = _get_format_options(format_option, codec).format

\* a fallback for an audio request with a referrer: the directive is kept
C13_Witness ==
    /\ ydl_opts_fallback # Unset
    /\ format_option = "mp3"
    /\ referrer = "https://r.example"
    /\ ydl_opts_fallback.postprocessors = ExtractAudio("mp3")
    /\ ydl_opts.format = AudioQuery


----------------------------------------------------------------------------
(* Claims on the progress hook *)

\* the hook has been called with the event d and has ended
HookEnded == hook_pc \in {"returned", "raised"}

\* the key is in the event with a positive integer under it
KnownPositive(key) == key \in DOMAIN d /\ d[key].py = "int" /\ d[key].v > 0

\* the percentage p is the quotient num / den
IsQuotient(p, num, den) == p.num * den = num * p.den

\* C16: on a 'downloading' event the hook gives exactly one pair to the
\* sink; its percent is downloaded_bytes / total_bytes * 100 when
\* total_bytes is known and positive, else (total_bytes absent, null, zero
\* or negative) downloaded_bytes / total_bytes_estimate * 100 when the
\* estimate is known and positive, else 0; the hook does not fail.
C16_DownloadingPercent ==
    (HookEnded /\ d.status = "downloading") =>
        /\ hook_pc = "returned"
        /\ Len(sink) = 1
        /\ IF KnownPositive("total_bytes")
           THEN IsQuotient(sink[1].percent, 100 * d.downloaded_bytes, d.total_bytes.v)
           ELSE IF KnownPositive("total_bytes_estimate")
           THEN IsQuotient(sink[1].percent, 100 * d.downloaded_bytes,
                           d.total_bytes_estimate.v)
           ELSE IsQuotient(sink[1].percent, 0, 1)

\* C17: every pair the hook gives to the sink, for a downloading, finished
\* or error event and any byte counts, has its percent in [0, 100].
C17_PercentInRange ==
    \A i \in 1..Len(sink) :
        /\ 0 <= sink[i].percent.num
        /\ sink[i].percent.num <= 100 * sink[i].percent.den

\* the text of the error of the event
ErrorText == IF "error" \in DOMAIN d THEN d.error ELSE UnknownError

\* C18 as stated: on an 'error' event the percent is not updated: the
\* value of the consumer after the event is the value before it, and the
\* message carries the error text.
C18_Original ==
    (HookEnded /\ d.status = "error" /\ consumed = Len(sink)) =>
        /\ progress_bar = bar_before
        /\ progress_label = <<get_text("status_error"), ErrorText>>

\* C18, amended: on an 'error' event the hook gives the sink one pair, of
\* percent 0 and of the error message with the error text of the event;
\* once the consumer has received it its progress value is 0 whatever it
\* was before, and its message is the error message.
C18_ErrorResetsPercent ==
    (HookEnded /\ d.status = "error") =>
        /\ hook_pc = "returned"
        /\ Len(sink) = 1
        /\ IsQuotient(sink[1].percent, 0, 1)
        /\ sink[1].message = <<get_text("status_error"), ErrorText>>
        /\ consumed = 1 =>
               /\ progress_bar = 0
               /\ progress_label = <<get_text("status_error"), ErrorText>>

\* a bar at 50 is back at 0 after the error event
C18_Witness ==
    /\ d.status = "error"
    /\ "error" \in DOMAIN d
    /\ bar_before = 50
    /\ consumed = 1
    /\ progress_bar = 0
    /\ progress_label = <<get_text("status_error"), d.error>>

\* C19: on a 'finished' event the hook gives the sink percent 100, whatever
\* the percent before, with the post-processing message made from the last
\* component of the file name of the event.
C19_FinishedIs100 ==
    (HookEnded /\ d.status = "finished") =>
        /\ hook_pc = "returned"
        /\ Len(sink) = 1
        /\ IsQuotient(sink[1].percent, 100, 1)
        /\ sink[1].message = <<get_text("status_processing"), LastComponent(d.filename)>>
        /\ \A i \in 1..Len(sink[1].message[2]) : sink[1].message[2][i] # Sep
        /\ consumed = 1 => progress_bar = 100

\* a file name with a directory, a bar at 50 before
C19_Witness ==
    /\ d.status = "finished"
    /\ d.filename = <<"d", Sep, "t", ExtSep, "a">>
    /\ bar_before = 50
    /\ consumed = 1
    /\ progress_bar = 100
    /\ progress_label = <<get_text("status_processing"), <<"t", ExtSep, "a">>>>

----------------------------------------------------------------------------
(* Claims on the manifest search *)

\* the entries of a value in depth-first pre-order: the entries of a dict
\* in stored order and the items of a list in index order (under the key
\* "<item>"), the entries of a container right after the container
RECURSIVE Preorder(_), PreorderFrom(_, _, _)
PreorderFrom(items, i, isDict) ==
    IF i > Len(items) THEN <<>>
    ELSE LET e == IF isDict THEN items[i] ELSE Entry("<item>", items[i])
         IN  <<e>> \o Preorder(e.v) \o PreorderFrom(items, i + 1, isDict)
Preorder(x) ==
    IF x.py = "dict" THEN PreorderFrom(x.items, 1, TRUE)
    ELSE IF x.py = "list" THEN PreorderFrom(x.items, 1, FALSE)
    ELSE <<>>

\* the document itself, then its entries
Visited(doc) == <<Entry("<root>", doc)>> \o Preorder(doc)

\* a string with the marker
MarkerString(e) == e.v.py = "str" /\ Contains(e.v.s, Marker)

\* a string under the preferred key
ShakahlsString(e) == e.k = "shakahls" /\ e.v.py = "str"

\* the value of the first entry that is a match, None without one
FirstMatch(es) ==
    IF \E i \in 1..Len(es) : MarkerString(es[i]) \/ ShakahlsString(es[i])
    THEN es[CHOOSE i \in 1..Len(es) :
                /\ MarkerString(es[i]) \/ ShakahlsString(es[i])
                /\ \A j \in 1..(i - 1) : ~(MarkerString(es[j]) \/ ShakahlsString(es[j]))].v
    ELSE PyNone

Occurrences(str, sub) ==
    Cardinality({i \in 1..(Len(str) - Len(sub) + 1) : SubSeq(str, i, i + Len(sub) - 1) = sub})

JsonDone == json_pc = "done"

\* C21: when the search finds a string with the marker '.m3u8', the
\* manifest URL is the prefix of that string up to the end of the first
\* '.m3u8': it ends with '.m3u8', holds the marker once, and what follows
\* the first marker is dropped; the document of the example gives the
\* referrer 'r' and the manifest 'x.m3u8'.
C21_TruncatedAtMarker ==
    (JsonDone /\ found.py = "str" /\ Contains(found.s, Marker)) =>
        /\ shakahls.py = "str"
        /\ EndsWith(shakahls.s, Marker)
        /\ Occurrences(shakahls.s, Marker) = 1
        /\ shakahls.s = SubSeq(found.s, 1, Len(shakahls.s))
        /\ json_info_label = "loaded" => kinescope_url_input = shakahls.s
        /\ data = ExampleDocument =>
               /\ referrer_input = Plain
               /\ kinescope_url_input = <<"x", ".", "m", "3", "u", "8">>

\* a URL with the marker twice is cut after the first
C21_Witness ==
    /\ JsonDone
    /\ found = PyStr(UrlTwice)
    /\ json_info_label = "loaded"
    /\ kinescope_url_input = <<"y", ".", "m", "3", "u", "8">>

\* C22: a string under 'shakahls' beats a string with '.m3u8' at the same
\* or a greater depth, a sibling stored before it included: when the
\* document is an object with a string under 'shakahls', the result is
\* that string.
C22_ShakahlsBeatsSibling ==
    (JsonDone /\ data.py = "dict" /\ HasKey(data, "shakahls")
              /\ DictGet(data, "shakahls").py = "str") =>
        found = DictGet(data, "shakahls")

\* C23: when the search visits an entry of key 'shakahls' with a string
\* value, whatever the string, that string is the result of the whole
\* search and no later entry is looked at: when the first match in
\* pre-order is a string under 'shakahls', the result is that string (an
\* empty string and no result being taken for the same).
C23_ShakahlsEndsSearch ==
    (JsonDone /\ data.py = "dict") =>
        LET es == Preorder(data)
        IN  \A i \in 1..Len(es) :
                (/\ ShakahlsString(es[i])
                 /\ \A j \in 1..(i - 1) : ~(MarkerString(es[j]) \/ ShakahlsString(es[j])))
                    => \/ found = es[i].v
                       \/ ~PyTruthy(found) /\ ~PyTruthy(es[i].v)

\* C24: for a document with no string under 'shakahls', the search returns
\* the string with '.m3u8' visited first in depth-first pre-order, and
\* nothing when there is none.
C24_FirstInPreorder ==
    (JsonDone /\ data.py = "dict"
              /\ \A i \in 1..Len(Preorder(data)) : ~ShakahlsString(Preorder(data)[i])) =>
        found = FirstMatch(Preorder(data))

\* the match inside an array comes before the match in a later sibling
C24_Witness ==
    /\ JsonDone
    /\ data = PyDict(<<Entry("nested", PyList(<<PyStr(Plain), PyStr(UrlTwice)>>)),
                       Entry("other", PyStr(UrlQuery))>>)
    /\ found = PyStr(UrlTwice)

\* C25: the search is total and treats a top-level array as it treats an
\* object: for a top-level array with a '.m3u8' string at any depth the
\* manifest URL is found, truncated at the marker; for a top-level string,
\* number, boolean or null nothing is found and no error is raised.
C25_TopLevelArray ==
    JsonDone =>
        /\ (data.py = "list" /\ \E i \in 1..Len(Preorder(data)) :
                                    MarkerString(Preorder(data)[i])) =>
               /\ shakahls.py = "str"
               /\ EndsWith(shakahls.s, Marker)
               /\ json_info_label = "loaded"
        /\ data.py \notin {"dict", "list"} =>
               /\ shakahls = PyNone
               /\ json_info_label = "not_found"
               /\ json_exc = None

\* C26: the referrer comes from a direct 'referrer' field of a top-level
\* object alone and is a string or absent: a nested 'referrer' never
\* contributes, and a top-level 'referrer' that is not a string is not
\* used and makes nothing fail.
C26_ReferrerShallowString ==
    JsonDone =>
        /\ json_exc = None
        /\ json_info_label # "error"
        /\ referrer_input # <<>> =>
               /\ data.py = "dict"
               /\ HasKey(data, "referrer")
               /\ DictGet(data, "referrer") = PyStr(referrer_input)
        /\ PyTruthy(shakahls) => kinescope_url_input = shakahls.s

\* C27: for a document with no '.m3u8' string and no string under
\* 'shakahls', the manifest URL is absent and this is the 'not found'
\* outcome, not an error; the URL field is not filled in.
C27_NotFoundIsNormal ==
    (JsonDone /\ \A i \in 1..Len(Visited(data)) :
                     ~(MarkerString(Visited(data)[i]) \/ ShakahlsString(Visited(data)[i]))) =>
        /\ ~PyTruthy(shakahls)
        /\ json_info_label = "not_found"
        /\ json_exc = None
        /\ kinescope_url_input \in {<<>>, <<"o">>}
        /\ referrer_input = <<>>

\* a document with a referrer and no stream leaves the URL field as it was
C27_Witness ==
    /\ JsonDone
    /\ data = PyDict(<<Entry("referrer", PyStr(Plain)), Entry("other", PyInt(5))>>)
    /\ json_info_label = "not_found"
    /\ kinescope_url_input = <<"o">>


----------------------------------------------------------------------------
(* Claims on the window *)

\* the worker's run is under way: started and its terminal signal not emitted
Running == pc \in {"run", "ready", "primary", "fallback", "returned", "raised"}

\* C28: whatever the user does (clicks on the two download buttons, files
\* given, tab switches) and however the worker's signals come in, at most
\* one worker is in flight: a worker is started only once the one before
\* has had its terminal signal received, and it starts from a downloader
\* of its own.
C28_OneWorkerInFlight ==
    /\ workers \in {0, 1}
    /\ Running => workers = 1
    /\ workers = 1 => ~ui_enabled
    /\ (workers = 1 /\ pc = "run") =>
           /\ calls = 0
           /\ ydl_opts = Unset
           /\ channel = <<>>

\* a worker started from the Kinescope tab after a file was loaded
C28_Witness ==
    /\ workers = 1
    /\ pc = "primary"
    /\ origin = "start_kinescope_download"
    /\ json_info_label = "loaded"
    /\ url = <<"x", ".", "m", "3", "u", "8">>

\* C29: for a download started from the Kinescope tab, the codec given to
\* download is the codec selected on that tab and is one of h264 and av1,
\* so that h264 gives a query constrained to avc and never to av01.
C29_KinescopeCodec ==
    (origin = "start_kinescope_download" /\ format_opts # Unset) =>
        /\ codec = kinescope_codec
        /\ codec \in {"h264", "av1"}
        /\ kinescope_codec = "h264" =>
               /\ NamesCodec(format_opts.format[1][1], "avc")
               /\ \A i \in 1..Len(format_opts.format) :
                      \A j \in 1..Len(format_opts.format[i]) :
                          ~NamesCodec(format_opts.format[i][j], "av01")

\* C30: the controls are disabled exactly while a worker is in flight; a
\* click with an empty URL or an empty path starts no worker and leaves the
\* controls enabled; a worker is started only with a URL and a path; and,
\* the worker, the engine and the slots going on, the controls are enabled
\* again after every start.
C30_ControlsFollowWorker ==
    /\ [](ui_enabled <=> workers = 0)
    /\ [](last_click = "rejected" => (ui_enabled /\ ~Running))
    /\ [](Running => (url # <<>> /\ output_path # <<>>))
    /\ (~ui_enabled ~> ui_enabled)

\* a download that failed has given the controls back
C30_Witness ==
    /\ last_click = "started"
    /\ pc = "done"
    /\ delivered = Len(channel)
    /\ channel[Len(channel)].sig = "error"
    /\ ui_enabled
    /\ workers = 0

====
